---- MODULE Spec2Model ----
(***************************************************************************)
(* Model of the kubeadm init action of kind:                               *)
(*   pkg/cluster/internal/create/actions/kubeadminit/init.go               *)
(* One run of action.Execute is a sequential program; every action below   *)
(* is one statement (or one loop iteration) of Execute, and the results of *)
(* the external calls (ctx.Nodes, the commands run on the node, the file   *)
(* copies) are chosen nondeterministically.                                *)
(***************************************************************************)
EXTENDS Integers, Sequences, FiniteSets, TLC

\* ------------------------------------------------------------------ bounds
\* Largest number of nodes handed to one run.
MaxNodes == 3

\* ------------------------------------------------------------ environment
\* Node identities available to the provisioning collaborator.
NodeNames == <<"A", "B", "C", "D", "E">>

Names == {NodeNames[k] : k \in 1..MaxNodes}

Roles == {"control-plane", "worker"}

Node == [name : Names, role : Roles]

\* The zero value of a node handle (no node selected).
NoNode == [name |-> "", role |-> ""]

\* Ordered node sets with distinct identities, of 0..MaxNodes nodes.
NodeSets ==
  {s \in UNION {[1..n -> Node] : n \in 0..MaxNodes} :
     \A a, b \in DOMAIN s : a # b => s[a].name # s[b].name}

\* An error is the chain of its messages, outermost first; nil is empty.
nil == <<>>

\* Errors the provider can return from listing the nodes.
NodesErrs == {<<"failed to list nodes">>}

\* Errors the command transport can return (non-zero exit, cannot launch).
CmdErrs == {<<"exit status 1">>}

\* Errors the node-to-node copy can return.
CopyErrs == {<<"copy failed">>}

\* errors.Wrap(err, msg): msg in front of the wrapped cause.
Wrap(err, msg) == <<msg>> \o err

\* --------------------------------------------------------- node selection
ControlPlaneNodes(nodes) == SelectSeq(nodes, LAMBDA n : n.role = "control-plane")

\* nodeutils.BootstrapControlPlaneNode: the first control-plane node.
BootstrapControlPlaneNode(nodes) ==
  LET cps == ControlPlaneNodes(nodes) IN
  IF cps = <<>>
    THEN [node |-> NoNode, err |-> <<"NoControlPlaneNode">>]
    ELSE [node |-> Head(cps), err |-> nil]

\* nodeutils.SecondaryControlPlaneNodes: the control-plane nodes but the first.
SecondaryControlPlaneNodes(nodes) ==
  LET cps == ControlPlaneNodes(nodes) IN
  IF cps = <<>>
    THEN [nodes |-> <<>>, err |-> <<"NoControlPlaneNode">>]
    ELSE [nodes |-> Tail(cps), err |-> nil]

\* ------------------------------------------------- pieces of action.Execute
\* The files copied to every other control-plane node, in order.
files_without_admin_conf ==
  << "/etc/kubernetes/pki/ca.crt", "/etc/kubernetes/pki/ca.key",
     "/etc/kubernetes/pki/front-proxy-ca.crt", "/etc/kubernetes/pki/front-proxy-ca.key",
     "/etc/kubernetes/pki/sa.pub", "/etc/kubernetes/pki/sa.key",
     "/etc/kubernetes/pki/etcd/ca.crt", "/etc/kubernetes/pki/etcd/ca.key" >>

files_key_before_crt ==
  << "/etc/kubernetes/admin.conf",
     "/etc/kubernetes/pki/ca.key", "/etc/kubernetes/pki/ca.crt",
     "/etc/kubernetes/pki/front-proxy-ca.crt", "/etc/kubernetes/pki/front-proxy-ca.key",
     "/etc/kubernetes/pki/sa.pub", "/etc/kubernetes/pki/sa.key",
     "/etc/kubernetes/pki/etcd/ca.crt", "/etc/kubernetes/pki/etcd/ca.key" >>

files_admin_conf_twice ==
  << "/etc/kubernetes/admin.conf", "/etc/kubernetes/admin.conf",
     "/etc/kubernetes/pki/ca.crt", "/etc/kubernetes/pki/ca.key",
     "/etc/kubernetes/pki/front-proxy-ca.crt", "/etc/kubernetes/pki/front-proxy-ca.key",
     "/etc/kubernetes/pki/sa.pub", "/etc/kubernetes/pki/sa.key",
     "/etc/kubernetes/pki/etcd/ca.crt", "/etc/kubernetes/pki/etcd/ca.key" >>

files_kept_growing ==
  << "/etc/kubernetes/admin.conf",
     "/etc/kubernetes/pki/ca.crt", "/etc/kubernetes/pki/ca.key",
     "/etc/kubernetes/pki/front-proxy-ca.crt", "/etc/kubernetes/pki/front-proxy-ca.key",
     "/etc/kubernetes/pki/sa.pub", "/etc/kubernetes/pki/sa.key",
     "/etc/kubernetes/pki/etcd/ca.crt", "/etc/kubernetes/pki/etcd/ca.key",
     "/etc/kubernetes/pki/apiserver.crt", "/etc/kubernetes/pki/apiserver.key" >>

files ==
  << "/etc/kubernetes/admin.conf",
     "/etc/kubernetes/pki/ca.crt", "/etc/kubernetes/pki/ca.key",
     "/etc/kubernetes/pki/front-proxy-ca.crt", "/etc/kubernetes/pki/front-proxy-ca.key",
     "/etc/kubernetes/pki/sa.pub", "/etc/kubernetes/pki/sa.key",
     "/etc/kubernetes/pki/etcd/ca.crt", "/etc/kubernetes/pki/etcd/ca.key" >>

\* defer ctx.Status.End(false): the End calls made when Execute returns.
NoDeferredEnd == <<>>

DeferredEnd == <<FALSE>>

\* if err != nil after BootstrapControlPlaneNode
BootstrapErrIgnored(err) == FALSE

BootstrapErrCheck(err) == err # nil

\* if err != nil after exec.CombinedOutputLines(cmd)
InitErrIgnored(err) == FALSE

InitErrCheck(err) == err # nil

\* the message wrapped around a failed kubeadm init
InitWrapMsgOfCopy == "failed to copy admin kubeconfig"

InitWrapMsg == "failed to init node with kubeadm"

\* ctx.Logger.V(3).Info(...): the log calls made once kubeadm init returned err
InitLogCallsAfterErrCheck(err) == IF err = nil THEN 1 ELSE 0

InitLogCalls(err) == 1

\* the source and destination passed to nodeutils.CopyNodeToNode
CopyArgsSwapped(n, other) == [src |-> other, dst |-> n]

CopyArgs(n, other) == [src |-> n, dst |-> other]

\* if err := nodeutils.CopyNodeToNode(...); err != nil
CopyErrIgnored(err) == FALSE

CopyErrCheck(err) == err # nil

\* the message wrapped around a failed copy
CopyWrapMsg == "failed to copy admin kubeconfig"

\* if len(allNodes) == 1
OneControlPlane(nodes) == Len(ControlPlaneNodes(nodes)) = 1

MoreThanOneNode(nodes) == Len(nodes) > 1

OnlyOneNode(nodes) == Len(nodes) = 1

\* if err := node.Command("kubectl", ...).Run(); err != nil
TaintErrIgnored(err) == FALSE

TaintErrCheck(err) == err # nil

\* the message wrapped around a failed taint removal
TaintWrapMsgOfInit == "failed to init node with kubeadm"

TaintWrapMsg == "failed to remove master taint"

\* ------------------------------------------------------------------ state
VARIABLES
  cluster,            \* the nodes the provider holds (what ctx.Nodes lists)
  pc,                 \* position of the run in Execute
  allNodes,           \* local allNodes
  nodesErr,           \* the err returned by ctx.Nodes()
  node,               \* local node: the bootstrap control-plane node
  otherControlPlanes, \* local otherControlPlanes
  oi,                 \* index of the outer loop (otherNode)
  fi,                 \* index of the inner loop (file)
  ops,                \* remote operations issued so far, with their results
  started,            \* number of ctx.Status.Start calls
  ends,               \* arguments of the ctx.Status.End calls, in order
  logged,             \* number of ctx.Logger.V(3).Info calls
  ret                 \* value returned by Execute (nil until it returns an error)

vars == <<cluster, pc, allNodes, nodesErr, node, otherControlPlanes, oi, fi,
          ops, started, ends, logged, ret>>

\* One remote operation: a command run on src, or a copy of file from src to dst.
Op(kind, s, d, f, err) ==
  [op |-> kind, src |-> s, dst |-> d, file |-> f, ok |-> (err = nil)]

Init ==
  /\ cluster \in NodeSets
  /\ pc = "start"
  /\ allNodes = <<>>
  /\ nodesErr = nil
  /\ node = NoNode
  /\ otherControlPlanes = <<>>
  /\ oi = 1
  /\ fi = 1
  /\ ops = <<>>
  /\ started = 0
  /\ ends = <<>>
  /\ logged = 0
  /\ ret = nil

\* return e: the deferred End runs, Execute is over.
Return(e) ==
  /\ ret' = e
  /\ ends' = ends \o DeferredEnd
  /\ pc' = "done"

\* ctx.Status.Start(...); defer ctx.Status.End(false)
Start ==
  /\ pc = "start"
  /\ started' = started + 1
  /\ pc' = "nodes"
  /\ UNCHANGED <<cluster, allNodes, nodesErr, node, otherControlPlanes, oi, fi,
                 ops, ends, logged, ret>>

\* allNodes, err := ctx.Nodes(); if err != nil { return err }
GetNodes ==
  /\ pc = "nodes"
  /\ \E err \in {nil} \cup NodesErrs :
       /\ nodesErr' = err
       /\ IF err # nil
            THEN /\ Return(err)
                 /\ UNCHANGED allNodes
            ELSE /\ allNodes' = cluster
                 /\ pc' = "bootstrap"
                 /\ UNCHANGED <<ends, ret>>
  /\ UNCHANGED <<cluster, node, otherControlPlanes, oi, fi, ops, started, logged>>

\* node, err := nodeutils.BootstrapControlPlaneNode(allNodes); if err != nil { return err }
SelectBootstrap ==
  /\ pc = "bootstrap"
  /\ LET r == BootstrapControlPlaneNode(allNodes) IN
       /\ node' = r.node
       /\ IF BootstrapErrCheck(r.err)
            THEN Return(r.err)
            ELSE /\ pc' = "init"
                 /\ UNCHANGED <<ends, ret>>
  /\ UNCHANGED <<cluster, allNodes, nodesErr, otherControlPlanes, oi, fi, ops,
                 started, logged>>

\* kubeadm init on node; log the output; on error return the wrapped error
KubeadmInit ==
  /\ pc = "init"
  /\ \E err \in {nil} \cup CmdErrs :
       /\ ops' = Append(ops, Op("init", node, NoNode, "", err))
       /\ logged' = logged + InitLogCalls(err)
       /\ IF InitErrCheck(err)
            THEN Return(Wrap(err, InitWrapMsg))
            ELSE /\ pc' = "secondaries"
                 /\ UNCHANGED <<ends, ret>>
  /\ UNCHANGED <<cluster, allNodes, nodesErr, node, otherControlPlanes, oi, fi, started>>

\* otherControlPlanes, err := nodeutils.SecondaryControlPlaneNodes(allNodes)
SelectSecondaries ==
  /\ pc = "secondaries"
  /\ LET r == SecondaryControlPlaneNodes(allNodes) IN
       /\ otherControlPlanes' = r.nodes
       /\ IF r.err # nil
            THEN /\ Return(r.err)
                 /\ UNCHANGED <<oi, fi>>
            ELSE /\ pc' = "copy"
                 /\ oi' = 1
                 /\ fi' = 1
                 /\ UNCHANGED <<ends, ret>>
  /\ UNCHANGED <<cluster, allNodes, nodesErr, node, ops, started, logged>>

\* one iteration of the inner loop: CopyNodeToNode(node, otherNode, file)
CopyFile ==
  /\ pc = "copy"
  /\ oi <= Len(otherControlPlanes)
  /\ \E err \in {nil} \cup CopyErrs :
       /\ LET a == CopyArgs(node, otherControlPlanes[oi]) IN
            ops' = Append(ops, Op("copy", a.src, a.dst, files[fi], err))
       /\ IF CopyErrCheck(err)
            THEN /\ Return(Wrap(err, CopyWrapMsg))
                 /\ UNCHANGED <<oi, fi>>
            ELSE /\ IF fi < Len(files)
                      THEN fi' = fi + 1 /\ oi' = oi
                      ELSE fi' = 1 /\ oi' = oi + 1
                 /\ UNCHANGED <<pc, ends, ret>>
  /\ UNCHANGED <<cluster, allNodes, nodesErr, node, otherControlPlanes, started, logged>>

\* the outer loop is exhausted
CopyDone ==
  /\ pc = "copy"
  /\ oi > Len(otherControlPlanes)
  /\ pc' = "taint"
  /\ UNCHANGED <<cluster, allNodes, nodesErr, node, otherControlPlanes, oi, fi,
                 ops, started, ends, logged, ret>>

\* len(allNodes) == 1: kubectl taint on node; on error return the wrapped error
RemoveTaint ==
  /\ pc = "taint"
  /\ OnlyOneNode(allNodes)
  /\ \E err \in {nil} \cup CmdErrs :
       /\ ops' = Append(ops, Op("taint", node, NoNode, "", err))
       /\ IF TaintErrCheck(err)
            THEN Return(Wrap(err, TaintWrapMsg))
            ELSE /\ pc' = "success"
                 /\ UNCHANGED <<ends, ret>>
  /\ UNCHANGED <<cluster, allNodes, nodesErr, node, otherControlPlanes, oi, fi,
                 started, logged>>

\* len(allNodes) != 1: nothing to do
SkipTaint ==
  /\ pc = "taint"
  /\ ~OnlyOneNode(allNodes)
  /\ pc' = "success"
  /\ UNCHANGED <<cluster, allNodes, nodesErr, node, otherControlPlanes, oi, fi,
                 ops, started, ends, logged, ret>>

\* ctx.Status.End(true)
MarkSuccess ==
  /\ pc = "success"
  /\ ends' = Append(ends, TRUE)
  /\ pc' = "return"
  /\ UNCHANGED <<cluster, allNodes, nodesErr, node, otherControlPlanes, oi, fi,
                 ops, started, logged, ret>>

\* return nil
ReturnNil ==
  /\ pc = "return"
  /\ Return(nil)
  /\ UNCHANGED <<cluster, allNodes, nodesErr, node, otherControlPlanes, oi, fi,
                 ops, started, logged>>

Next ==
  \/ Start
  \/ GetNodes
  \/ SelectBootstrap
  \/ KubeadmInit
  \/ SelectSecondaries
  \/ CopyFile
  \/ CopyDone
  \/ RemoveTaint
  \/ SkipTaint
  \/ MarkSuccess
  \/ ReturnNil

Spec == Init /\ [][Next]_vars

\* -------------------------------------------------- vocabulary of the claims
\* The error kinds of the design, read off the outermost message of an error.
Kind(err) ==
  IF err = nil THEN "none"
  ELSE CASE Head(err) = "NoControlPlaneNode" -> "NoControlPlaneNode"
         [] Head(err) = "failed to init node with kubeadm" -> "InitFailed"
         [] Head(err) = "failed to copy admin kubeconfig" -> "PropagationFailed"
         [] Head(err) = "failed to remove master taint" -> "TaintRemovalFailed"
         [] OTHER -> "other"

\* x occurs among the messages of err.
Mentions(err, x) == \E k \in DOMAIN err : err[k] = x

OpsOf(kind) == SelectSeq(ops, LAMBDA o : o.op = kind)

InitSucceeded == \E k \in DOMAIN ops : ops[k].op = "init" /\ ops[k].ok

InitFailed == \E k \in DOMAIN ops : ops[k].op = "init" /\ ~ops[k].ok

CopyFailed == \E k \in DOMAIN ops : ops[k].op = "copy" /\ ~ops[k].ok

TaintFailed == \E k \in DOMAIN ops : ops[k].op = "taint" /\ ~ops[k].ok

\* The node set was handed to the run (ctx.Nodes returned it).
NodesObtained == pc \notin {"start", "nodes"} /\ nodesErr = nil

\* The control-plane nodes of the node set, and its secondaries.
ClusterControlPlanes == ControlPlaneNodes(cluster)

NumSecondaries ==
  IF ClusterControlPlanes = <<>> THEN 0 ELSE Len(ClusterControlPlanes) - 1

\* The artifact list of the design, in its declared order.
ArtifactList ==
  << "/etc/kubernetes/admin.conf",
     "/etc/kubernetes/pki/ca.crt", "/etc/kubernetes/pki/ca.key",
     "/etc/kubernetes/pki/front-proxy-ca.crt", "/etc/kubernetes/pki/front-proxy-ca.key",
     "/etc/kubernetes/pki/sa.pub", "/etc/kubernetes/pki/sa.key",
     "/etc/kubernetes/pki/etcd/ca.crt", "/etc/kubernetes/pki/etcd/ca.key" >>

\* The (secondary, file) pairs in the defined order: secondaries outer, files inner.
ExpectedCopies ==
  LET n == Len(ArtifactList) IN
  [k \in 1..(NumSecondaries * n) |->
     [dst |-> ClusterControlPlanes[((k - 1) \div n) + 2],
      file |-> ArtifactList[((k - 1) % n) + 1]]]

CopiesMade ==
  LET c == OpsOf("copy") IN
  [k \in 1..Len(c) |-> [dst |-> c[k].dst, file |-> c[k].file]]

\* ------------------------------------------------------------------ claims

\* C1: no copy is attempted unless kubeadm init on the bootstrap node has
\* already completed successfully; if init fails, the run ends with the
\* init-failure error and neither a copy nor a taint removal has been issued.
C1_NoCopyBeforeInitSuccess ==
  /\ \A k \in DOMAIN ops :
       ops[k].op = "copy" =>
         \E m \in 1..(k - 1) : ops[m].op = "init" /\ ops[m].ok
  /\ InitFailed =>
       /\ pc = "done"
       /\ Kind(ret) = "InitFailed"
       /\ OpsOf("copy") = <<>>
       /\ OpsOf("taint") = <<>>

\* C1 witness: init failed in a run that had secondaries to copy to.
C1_Witness ==
  /\ pc = "done"
  /\ InitFailed
  /\ NumSecondaries >= 1

\* C2 (as stated): init succeeded, N secondaries, every copy succeeded =>
\* exactly N x 8 copies.
C2_Original_NTimes8 ==
  (pc = "done" /\ InitSucceeded /\ ~CopyFailed) =>
     Len(OpsOf("copy")) = NumSecondaries * 8

\* C2 (amended): init succeeded, N secondaries, every copy succeeded =>
\* exactly N x 9 copies, each secondary receiving the nine files admin.conf,
\* ca.crt, ca.key, front-proxy-ca.crt, front-proxy-ca.key, sa.pub, sa.key,
\* etcd/ca.crt, etcd/ca.key in that order.
C2_NTimes9InOrder ==
  (pc = "done" /\ InitSucceeded /\ ~CopyFailed) =>
     /\ Len(OpsOf("copy")) = NumSecondaries * 9
     /\ CopiesMade = ExpectedCopies

\* C2 witness: a finished run that copied to two secondaries.
C2_Witness ==
  /\ pc = "done"
  /\ InitSucceeded
  /\ ~CopyFailed
  /\ NumSecondaries = 2
  /\ Len(OpsOf("copy")) = 18

\* C3: a failed copy is the last operation of the run: no later copy, no
\* taint removal, and the run is over without being reported as successful.
C3_CopyFailureAborts ==
  \A k \in DOMAIN ops :
    (ops[k].op = "copy" /\ ~ops[k].ok) =>
       /\ k = Len(ops)
       /\ pc = "done"
       /\ ret # nil
       /\ \A e \in DOMAIN ends : ends[e] = FALSE

\* C3 witness: the very first copy failed with two secondaries: 17 pairs left.
C3_Witness ==
  /\ CopyFailed
  /\ Len(OpsOf("copy")) = 1
  /\ NumSecondaries = 2

\* C4: when a copy fails, the error returned is a PropagationFailed error
\* that identifies the destination node and the file path of the failed copy.
C4_ErrorNamesNodeAndFile ==
  (pc = "done" /\ CopyFailed) =>
     /\ Kind(ret) = "PropagationFailed"
     /\ Mentions(ret, ops[Len(ops)].dst.name)
     /\ Mentions(ret, ops[Len(ops)].file)

\* C5: once init and propagation have succeeded, the taint removal is issued
\* (once, on the bootstrap node) iff the node set has exactly one node; with
\* two or more nodes it is never issued.
C5_TaintIffOneNode ==
  /\ Len(cluster) >= 2 => OpsOf("taint") = <<>>
  /\ (pc \in {"success", "return", "done"} /\ InitSucceeded /\ ~CopyFailed) =>
       /\ (Len(cluster) = 1) <=> (Len(OpsOf("taint")) = 1)
       /\ Len(OpsOf("taint")) <= 1
       /\ \A k \in DOMAIN ops :
            ops[k].op = "taint" => ops[k].src = Head(ClusterControlPlanes)

\* C5 witness: propagation done on a one-node cluster, taint removal issued.
C5_Witness ==
  /\ pc = "success"
  /\ Len(cluster) = 1
  /\ Len(OpsOf("taint")) = 1

\* C5 second case reached: propagation done on a larger cluster.
C5_WitnessSkipped ==
  /\ pc = "success"
  /\ Len(cluster) >= 2

\* C6: for a node set without control-plane node the run fails with
\* NoControlPlaneNode and no command (init, copy, taint removal) is issued.
C6_NoControlPlaneNode ==
  ClusterControlPlanes = <<>> =>
     /\ ops = <<>>
     /\ pc \notin {"init", "secondaries", "copy", "taint", "success", "return"}
     /\ (pc = "done" /\ NodesObtained) => Kind(ret) = "NoControlPlaneNode"

\* C6 witness: a run over two workers ended.
C6_Witness ==
  /\ pc = "done"
  /\ NodesObtained
  /\ Len(cluster) = 2
  /\ ClusterControlPlanes = <<>>

\* C7 (as stated): Status.End is invoked exactly once in every run.
C7_Original_EndExactlyOnce ==
  /\ pc = "done" => Len(ends) = 1
  /\ Len(ends) <= 1

\* C7 (amended): Status.End is invoked exactly once, as End(false), in every
\* run that aborts; a successful run invokes it exactly twice, End(true) at
\* the success mark followed by the deferred End(false) on return.
C7_EndOnceOnAbortTwiceOnSuccess ==
  /\ pc = "done" =>
       /\ ret # nil => ends = <<FALSE>>
       /\ ret = nil => ends = <<TRUE, FALSE>>
  /\ pc = "return" => ends = <<TRUE>>
  /\ pc \notin {"done", "return"} => ends = <<>>

\* C7 witness: a successful run and its two End calls.
C7_Witness ==
  /\ pc = "done"
  /\ ret = nil
  /\ Len(ends) = 2

\* C7 witness of the aborting case.
C7_WitnessAbort ==
  /\ pc = "done"
  /\ ret # nil
  /\ Len(ends) = 1

\* C8: End(true) and the nil return happen only when node selection, init,
\* every copy for every secondary and the required taint removal succeeded;
\* Execute returns nil iff End(true) was signalled.
C8_SuccessOnlyIfAllSucceeded ==
  /\ (\E e \in DOMAIN ends : ends[e] = TRUE) =>
       /\ NodesObtained
       /\ ClusterControlPlanes # <<>>
       /\ node = Head(ClusterControlPlanes)
       /\ InitSucceeded
       /\ \A k \in DOMAIN ops : ops[k].ok
       /\ CopiesMade = ExpectedCopies
       /\ Len(cluster) = 1 => OpsOf("taint") # <<>>
  /\ pc = "done" => ((ret = nil) <=> (\E e \in DOMAIN ends : ends[e] = TRUE))

\* C8 witness: success reported after copies were made.
C8_Witness ==
  /\ pc = "done"
  /\ ret = nil
  /\ OpsOf("copy") # <<>>

\* C8 witness: a failed taint removal, the last step that can fail.
C8_WitnessTaintFailed ==
  /\ pc = "done"
  /\ TaintFailed

\* The error kind of the first step that failed in the run.
FirstFailureKind ==
  CASE nodesErr # nil -> "NodeListFailed"
    [] NodesObtained /\ ClusterControlPlanes = <<>> -> "NoControlPlaneNode"
    [] InitFailed -> "InitFailed"
    [] CopyFailed -> "PropagationFailed"
    [] TaintFailed -> "TaintRemovalFailed"
    [] OTHER -> "none"

\* C9 (as stated): a failed run returns an error of exactly one of the four
\* kinds, the kind of the first step that failed.
C9_Original_OneOfFourKinds ==
  (pc = "done" /\ ret # nil) =>
     /\ Kind(ret) \in {"NoControlPlaneNode", "InitFailed", "PropagationFailed",
                       "TaintRemovalFailed"}
     /\ Kind(ret) = FirstFailureKind

\* C9 (amended): a failed run returns a single error for the first step that
\* failed: the provider's own error, unwrapped, when the node list cannot be
\* obtained, and otherwise one of NoControlPlaneNode (returned unwrapped from
\* the node selector), InitFailed, PropagationFailed, TaintRemovalFailed
\* (each wrapping the cause); a run fails iff one of its steps failed.
C9_KindOfFirstFailure ==
  pc = "done" =>
     /\ (ret # nil) <=> (FirstFailureKind # "none")
     /\ FirstFailureKind = "NodeListFailed" => ret = nodesErr /\ ret \in NodesErrs
     /\ FirstFailureKind \notin {"NodeListFailed", "none"} =>
          Kind(ret) = FirstFailureKind
     /\ FirstFailureKind \in {"InitFailed", "TaintRemovalFailed"} =>
          Tail(ret) \in CmdErrs
     /\ FirstFailureKind = "PropagationFailed" => Tail(ret) \in CopyErrs

\* C9 witness: the node list could not be obtained.
C9_Witness ==
  /\ pc = "done"
  /\ nodesErr # nil

\* C9 witness: kubeadm init failed.
C9_WitnessInit ==
  /\ pc = "done"
  /\ FirstFailureKind = "InitFailed"

\* C10: a node set of one control-plane node A with every remote operation
\* succeeding: the operations are exactly [init on A, taint removal on A],
\* no copy, and success is reported.
C10_SingleNodeScenario ==
  (/\ pc = "done"
   /\ NodesObtained
   /\ Len(cluster) = 1
   /\ cluster[1].role = "control-plane"
   /\ \A k \in DOMAIN ops : ops[k].ok) =>
     /\ ops = << Op("init", cluster[1], NoNode, "", nil),
                 Op("taint", cluster[1], NoNode, "", nil) >>
     /\ ret = nil
     /\ \E e \in DOMAIN ends : ends[e] = TRUE

\* C10 witness: the single-node run finished with its two commands issued.
C10_Witness ==
  /\ pc = "done"
  /\ Len(cluster) = 1
  /\ Len(ops) = 2
  /\ \A k \in DOMAIN ops : ops[k].ok

\* A run is one sequential thread whose blocking calls all return: the run
\* keeps taking its next step until Execute has returned.
FairSpec == Init /\ [][Next]_vars /\ WF_vars(Next)

\* C11: a failed taint removal aborts the run with TaintRemovalFailed wrapping
\* the command's error; success is never signalled, nothing is issued after
\* it, and the successful init stays the only other operation of the run.
C11_TaintFailureAborts ==
  TaintFailed =>
     /\ pc = "done"
     /\ Kind(ret) = "TaintRemovalFailed"
     /\ Tail(ret) \in CmdErrs
     /\ \A e \in DOMAIN ends : ends[e] = FALSE
     /\ Len(ops) = 2
     /\ ops[1].op = "init" /\ ops[1].ok
     /\ ops[2].op = "taint" /\ ~ops[2].ok

\* C11 witness: the taint removal failed on a one-node cluster.
C11_Witness ==
  /\ TaintFailed
  /\ Len(cluster) = 1
  /\ ret # nil

\* C12: the copies made so far are a prefix of the (secondary, file) pairs in
\* the defined order, secondaries outer and files inner, and every copy but
\* the last one made has succeeded.
C12_CopiesArePrefixInOrder ==
  LET c == OpsOf("copy") IN
  /\ Len(c) <= Len(ExpectedCopies)
  /\ \A k \in DOMAIN c :
       /\ CopiesMade[k] = ExpectedCopies[k]
       /\ k < Len(c) => c[k].ok
  /\ \A a, b \in DOMAIN c :
       (a < b) =>
          \E x, y \in DOMAIN ClusterControlPlanes :
             /\ ClusterControlPlanes[x] = c[a].dst
             /\ ClusterControlPlanes[y] = c[b].dst
             /\ x <= y

\* C12 witness: the run is copying to its second secondary.
C12_Witness ==
  /\ pc = "copy"
  /\ NumSecondaries = 2
  /\ Len(OpsOf("copy")) = 11

\* C13: the node init was issued on is the source of every copy and the
\* target of the taint removal; every copy goes to a secondary control-plane
\* node other than that node, and no secondary is a source or command target.
C13_BootstrapNodeFixed ==
  /\ (pc # "bootstrap" /\ NodesObtained /\ ClusterControlPlanes # <<>>) =>
       node = Head(ClusterControlPlanes)
  /\ \A k \in DOMAIN ops :
       /\ ops[1].op = "init"
       /\ ops[k].src = ops[1].src
       /\ ops[k].src = node
       /\ ops[k].op = "copy" =>
            /\ ops[k].dst # ops[1].src
            /\ ops[k].dst.role = "control-plane"
            /\ \E x \in DOMAIN cluster : cluster[x] = ops[k].dst
       /\ ops[k].op # "copy" => ops[k].dst = NoNode
       /\ \A j \in DOMAIN ops : ops[j].op = "copy" => ops[k].src # ops[j].dst

\* C13 witness: a two-secondary run that finished all its copies.
C13_Witness ==
  /\ pc = "taint"
  /\ NumSecondaries = 2
  /\ Len(OpsOf("copy")) = 18

\* C14: in one run init is issued at most once, the taint removal at most
\* once, every (secondary, file) pair is copied at most once, and a failed
\* operation is the last operation of the run (it is never re-issued).
C14_CallOnce ==
  /\ Len(OpsOf("init")) <= 1
  /\ Len(OpsOf("taint")) <= 1
  /\ \A a, b \in DOMAIN ops :
       (a # b /\ ops[a].op = "copy" /\ ops[b].op = "copy") =>
          (ops[a].dst # ops[b].dst \/ ops[a].file # ops[b].file)
  /\ \A k \in DOMAIN ops : ~ops[k].ok => k = Len(ops)

\* C14 witness: a copy failed in the middle of the second secondary's files.
C14_Witness ==
  /\ pc = "done"
  /\ CopyFailed
  /\ Len(OpsOf("copy")) = 13

\* C15 (as stated): node selection, of the bootstrap node and of the
\* secondaries, is over before any command is issued, and a selection
\* failure never follows kubeadm init.
C15_Original_SelectionBeforeCommands ==
  /\ pc \in {"bootstrap", "secondaries"} => ops = <<>>
  /\ Kind(ret) = "NoControlPlaneNode" => ops = <<>>

\* C15 (amended): only the bootstrap node is selected before any command: a
\* failure to select it aborts the run with nothing issued. The secondary
\* control-plane nodes are selected after kubeadm init has succeeded and
\* before any copy or taint removal.
C15_BootstrapBeforeCommandsSecondariesAfterInit ==
  /\ pc \in {"start", "nodes", "bootstrap"} => ops = <<>>
  /\ (pc = "done" /\ NodesObtained /\ ClusterControlPlanes = <<>>) =>
       ops = <<>> /\ ret # nil
  /\ pc = "secondaries" =>
       /\ Len(ops) = 1
       /\ ops[1].op = "init" /\ ops[1].ok
       /\ ClusterControlPlanes # <<>>
       /\ ops[1].src = Head(ClusterControlPlanes)
       /\ otherControlPlanes = <<>>
  /\ (OpsOf("copy") # <<>> \/ OpsOf("taint") # <<>>) =>
       /\ pc \notin {"start", "nodes", "bootstrap", "init", "secondaries"}
       /\ otherControlPlanes = Tail(ClusterControlPlanes)

\* C15 witness: the secondaries are about to be selected, init already done.
C15_Witness ==
  /\ pc = "secondaries"
  /\ InitSucceeded
  /\ NumSecondaries >= 1

\* C16: every run ends (Execute returns, with nil or with an error), it has
\* issued at most 1 + secondaries x files + 1 remote operations, and nothing
\* is issued or changed once it has ended.
C16_Terminates ==
  /\ <>(pc = "done")
  /\ [](Len(ops) <= 1 + NumSecondaries * Len(ArtifactList) + 1)
  /\ [][pc = "done" => (ops' = ops /\ pc' = "done" /\ ret' = ret)]_vars

\* C16 witness: the longest run, ended after init and all eighteen copies.
C16_Witness ==
  /\ pc = "done"
  /\ ret = nil
  /\ Len(ops) = 19

\* C16: the run aborted before any command (from Init).
C16_AbortedFromInit == pc = "done" /\ ret # nil /\ ops = <<>>

\* C16: the run aborted in Initializing.
C16_AbortedFromInitializing == pc = "done" /\ ret # nil /\ InitFailed

\* C16: the run aborted in Propagating.
C16_AbortedFromPropagating == pc = "done" /\ ret # nil /\ CopyFailed

\* C16: the run aborted in PostAdjusting.
C16_AbortedFromPostAdjusting == pc = "done" /\ ret # nil /\ TaintFailed

\* C17: the output of kubeadm init is logged exactly once in every run that
\* issued init, whether init succeeded or failed; when init failed the log
\* call has been made by the time the run has aborted with the error.
C17_InitOutputLoggedOnce ==
  /\ logged = Len(OpsOf("init"))
  /\ InitSucceeded => logged = 1
  /\ InitFailed => (logged = 1 /\ pc = "done" /\ Kind(ret) = "InitFailed")

\* C17 witness: init failed and its output was logged.
C17_Witness ==
  /\ InitFailed
  /\ logged = 1
  /\ ret # nil

\* C17: the successful case, logged as well.
C17_WitnessSuccess == InitSucceeded /\ logged = 1

\* C18: no run issues both a copy and the taint removal: a run with a copy
\* has at least two nodes, a run with the taint removal has exactly one node
\* and no secondary.
C18_CopyAndTaintExclusive ==
  /\ ~(OpsOf("copy") # <<>> /\ OpsOf("taint") # <<>>)
  /\ OpsOf("copy") # <<>> => Len(cluster) >= 2
  /\ OpsOf("taint") # <<>> =>
       (Len(cluster) = 1 /\ otherControlPlanes = <<>> /\ NumSecondaries = 0)

\* C18 witness: a run with copies went past the taint step without a taint.
C18_Witness ==
  /\ pc = "success"
  /\ OpsOf("copy") # <<>>
  /\ OpsOf("taint") = <<>>

====
